---- MODULE Spec2Model ----
(***************************************************************************)
(* A model of the charcoal translator: the source loader                   *)
(* (Project::parse_solidity_source_unit, Project::load_line_ranges), the   *)
(* dependency resolver (Project::create_conversion_queue), the translation *)
(* driver (Project::translate and the per-definition translators) and the  *)
(* get-or-create accessors of TranslatedDefinition.                        *)
(***************************************************************************)
EXTENDS Integers, Sequences, FiniteSets, TLC

(***************************************************************************)
(* Bounds of the model.                                                    *)
(***************************************************************************)
\* longest source text handed to load_line_ranges
MaxLen == 4

\* Option::None
None == [variant |-> "None"]

\* Option::Some
Some(x) == [variant |-> "Some", value |-> x]

\* the line break character tested by load_line_ranges
NL == "\n"

\* the characters of a source text: two ordinary characters and the break
Chars == {"a", "b", NL}

\* every sequence over S of length at most n
SeqsUpTo(S, n) == UNION {[1..k -> S] : k \in 0..n}

\* the empty HashMap
EmptyMap == [x \in {} |-> None]

VARIABLES
    pc,            \* position of the driver / of the operation under study
    source,        \* the source text given to load_line_ranges
    line_ranges,   \* Project::line_ranges : path -> Vec<(usize, usize)>
    definition,    \* a TranslatedDefinition
    created,       \* per section of the definition: how often it was constructed
    borrowed,      \* the section the last accessor call returned a reference to
    solidity_source_units, \* Project::solidity_source_units : path -> SourceUnit
    conversion_queue,      \* create_conversion_queue: the queue under construction
    pending,       \* the cached paths the HashMap iterator has not yielded yet
    unit,          \* source_unit_path of the unit being scanned or translated
    part_index,    \* 1-based index of the next part of that unit
    outcome,       \* "running", or how the run ended: "Ok", "Err" or "panic"
    contract,      \* the ContractDefinition given to translate_contract_definition
    module,        \* the sway::Module translate_contract_definition builds
    member_index,  \* 1-based index of the next part of the contract
    stdout,        \* what println! has written, in order
    fs,            \* the file system: per existing path the file found there
    contract_files,\* Options::contract_files, as given on the command line
    file_index,    \* 1-based index of the next entry of contract_files
    parse_calls,   \* per path: how often solang_parser::parse was run on it
    queue_index,   \* 1-based index of the next entry of the conversion queue
    stderr,        \* what was written to standard error, in order
    type_query,    \* the arguments of the last call of translate_type_name
    translated,    \* the sway::TypeName that call returned
    scope,         \* a TranslationScope: its variable list, then its parent's, ..
    found          \* the last lookup in the scope: the name and the reference returned

linesVars == <<source, line_ranges>>
defVars == <<definition, created, borrowed>>
queueVars == <<solidity_source_units, conversion_queue, pending, unit, part_index, outcome>>
contractVars == <<contract, module, member_index, stdout>>
runVars == <<fs, contract_files, file_index, parse_calls, queue_index, stderr>>
typeVars == <<type_query, translated>>
scopeVars == <<scope, found>>
vars == <<pc, linesVars, defVars, queueVars, contractVars, runVars, typeVars, scopeVars>>

\* the variables of the other components while one component is studied
IdleLines == source = <<>> /\ line_ranges = EmptyMap
IdleDef == definition = None /\ created = EmptyMap /\ borrowed = None
IdleQueue ==
    /\ solidity_source_units = EmptyMap
    /\ conversion_queue = <<>>
    /\ pending = {}
    /\ unit = 0
    /\ part_index = 0
    /\ outcome = "running"
IdleType == type_query = None /\ translated = None
IdleScope == scope = <<>> /\ found = None
IdleContract == contract = None /\ module = None /\ member_index = 0 /\ stdout = <<>>
IdleRun ==
    /\ fs = EmptyMap
    /\ contract_files = <<>>
    /\ file_index = 0
    /\ parse_calls = EmptyMap
    /\ queue_index = 0
    /\ stderr = <<>>

(***************************************************************************)
(* Project::load_line_ranges                                               *)
(***************************************************************************)
\* self.line_ranges.entry(path).or_insert(vec![]).push(line_range)
push_line_range(table, path, line_range) ==
    IF path \in DOMAIN table
      THEN [table EXCEPT ![path] = Append(@, line_range)]
      ELSE table @@ (path :> <<line_range>>)

\* the for loop over source.chars().enumerate(), from 0-based index i on;
\* yields the pair <<line_range, table>> the loop ends with
RECURSIVE line_ranges_loop(_, _, _, _, _)
line_ranges_loop(table, path, text, i, line_range) ==
    IF i >= Len(text) THEN <<line_range, table>>
    ELSE IF text[i + 1] = NL
      THEN line_ranges_loop(push_line_range(table, path, <<line_range[1], i>>),
                            path, text, i + 1, <<i + 1, 0>>)
      ELSE line_ranges_loop(table, path, text, i + 1, line_range)

load_line_ranges(table, path, text) ==
    LET r == line_ranges_loop(table, path, text, 0, <<0, 0>>)
        line_range == r[1]
    IN  IF line_range[2] > line_range[1]
          THEN push_line_range(r[2], path, line_range)
          ELSE r[2]

\* the path the text of SpecLines is loaded under
LinesPath == 1

InitLines ==
    /\ pc = "load_line_ranges"
    /\ source \in SeqsUpTo(Chars, MaxLen)
    /\ line_ranges = EmptyMap
    /\ IdleDef
    /\ IdleType
    /\ IdleScope
    /\ IdleQueue
    /\ IdleContract
    /\ IdleRun

\* one call of load_line_ranges on a freshly constructed Project
LoadLineRanges ==
    /\ pc = "load_line_ranges"
    /\ line_ranges' = load_line_ranges(line_ranges, LinesPath, source)
    /\ pc' = "loaded"
    /\ UNCHANGED <<source, defVars, typeVars, scopeVars, queueVars, contractVars, runVars>>

NextLines == LoadLineRanges

SpecLines == InitLines /\ [][NextLines]_vars

\* the spans recorded for the text, the empty list when the table has no entry
SpansOf(table, path) == IF path \in DOMAIN table THEN table[path] ELSE <<>>

\* 0-based offsets of the line breaks of a text, in increasing order
RECURSIVE BreakOffsets(_, _)
BreakOffsets(text, i) ==
    IF i >= Len(text) THEN <<>>
    ELSE IF text[i + 1] = NL THEN <<i>> \o BreakOffsets(text, i + 1)
    ELSE BreakOffsets(text, i + 1)

\* the spans the line breaks close: from the end of the previous line to the break
ClosedSpans(text) ==
    LET b == BreakOffsets(text, 0)
    IN  [k \in 1..Len(b) |-> <<IF k = 1 THEN 0 ELSE b[k - 1] + 1, b[k]>>]

EndsOnBreak(text) == Len(text) > 0 /\ text[Len(text)] = NL

\* start of the partial final line
LastLineStart(text) ==
    LET b == BreakOffsets(text, 0)
    IN  IF Len(b) = 0 THEN 0 ELSE b[Len(b)] + 1

\* C4: load_line_ranges yields one span per line break, closed at the break's
\* offset, and one more non-empty span for a partial final line; a text ending
\* on a line break yields no trailing empty span.
C4_PartialLineSpan ==
    pc = "loaded" =>
        SpansOf(line_ranges, LinesPath) =
            IF Len(source) = 0 \/ EndsOnBreak(source)
              THEN ClosedSpans(source)
              ELSE Append(ClosedSpans(source), <<LastLineStart(source), Len(source)>>)

\* what the code yields: the spans the line breaks close, and nothing else
LineBreakSpansOnly ==
    pc = "loaded" => SpansOf(line_ranges, LinesPath) = ClosedSpans(source)

(***************************************************************************)
(* TranslatedDefinition and its get-or-create accessors (translate.rs)     *)
(***************************************************************************)
\* most entries pushed through one returned reference
MaxItems == 2

\* the names a definition is constructed with
DefinitionNames == {"Token", "Contract"}

\* the entry (variant, function, field or impl item) a caller pushes
Item == "item"

Sections == {"events_enum", "errors_enum", "abi", "configurable", "storage",
             "contract_impl"}

\* TranslatedDefinition::new; a constructed section carries the number of the
\* construction that made it (instance), which tells one instance from another
new(name, inherits) ==
    [name |-> name, inherits |-> inherits,
     type_definitions |-> <<>>, structs |-> <<>>,
     events_enum |-> None, errors_enum |-> None, abi |-> None,
     configurable |-> None, storage |-> None,
     functions |-> <<>>, impls |-> <<>>]

get_events_enum(d, n) ==
    IF d.events_enum = None
      THEN [d EXCEPT !.events_enum =
                [instance |-> n, attributes |-> None, is_public |-> FALSE,
                 name |-> d.name \o "Event", generic_parameters |-> None,
                 variants |-> <<>>]]
      ELSE d

get_errors_enum(d, n) ==
    IF d.errors_enum = None
      THEN [d EXCEPT !.errors_enum =
                [instance |-> n, attributes |-> None, is_public |-> FALSE,
                 name |-> d.name \o "Error", generic_parameters |-> None,
                 variants |-> <<>>]]
      ELSE d

\* a mutant of get_abi: the section is constructed on every call
get_abi_always_new(d, n) ==
    [d EXCEPT !.abi = [instance |-> n, name |-> d.name, inherits |-> d.inherits,
                       functions |-> <<>>]]

get_abi(d, n) ==
    IF d.abi = None
      THEN [d EXCEPT !.abi = [instance |-> n, name |-> d.name,
                              inherits |-> d.inherits, functions |-> <<>>]]
      ELSE d

get_configurable(d, n) ==
    IF d.configurable = None
      THEN [d EXCEPT !.configurable = [instance |-> n, fields |-> <<>>]]
      ELSE d

get_storage(d, n) ==
    IF d.storage = None
      THEN [d EXCEPT !.storage = [instance |-> n, fields |-> <<>>]]
      ELSE d

\* sway::TypeName::Identifier { name, generic_parameters: None }
Identifier(name) == [variant |-> "Identifier", name |-> name, generic_parameters |-> None]

\* the closure find_contract_impl of get_contract_impl
find_contract_impl(d, i) ==
    /\ i.type_name.variant = "Identifier"
    /\ i.for_type_name # None
    /\ i.for_type_name.variant = "Identifier"
    /\ i.type_name.name = d.name
    /\ i.for_type_name.name = "Contract"

\* the indices of the blocks of impls the closure accepts
ContractImpls(d) == {k \in 1..Len(d.impls) : find_contract_impl(d, d.impls[k])}

get_contract_impl(d, n) ==
    IF ~ \E k \in 1..Len(d.impls) : find_contract_impl(d, d.impls[k])
      THEN [d EXCEPT !.impls = Append(@,
                [instance |-> n, generic_parameters |-> None,
                 type_name |-> Identifier(d.name),
                 for_type_name |-> Identifier("Contract"),
                 items |-> <<>>])]
      ELSE d

\* self.impls.iter_mut().find(find_contract_impl): the first accepted block
contract_impl_index(d) ==
    CHOOSE k \in ContractImpls(d) : \A j \in ContractImpls(d) : k <= j

\* the accessor of a section
get_section(s, d, n) ==
    CASE s = "events_enum" -> get_events_enum(d, n)
      [] s = "errors_enum" -> get_errors_enum(d, n)
      [] s = "abi" -> get_abi(d, n)
      [] s = "configurable" -> get_configurable(d, n)
      [] s = "storage" -> get_storage(d, n)
      [] s = "contract_impl" -> get_contract_impl(d, n)

\* what a reference returned by the accessor of s points to: None while the
\* section does not exist, else its instance number and the entries it holds
SectionOf(d, s) ==
    CASE s = "events_enum" ->
           IF d.events_enum = None THEN None
           ELSE [instance |-> d.events_enum.instance, items |-> d.events_enum.variants]
      [] s = "errors_enum" ->
           IF d.errors_enum = None THEN None
           ELSE [instance |-> d.errors_enum.instance, items |-> d.errors_enum.variants]
      [] s = "abi" ->
           IF d.abi = None THEN None
           ELSE [instance |-> d.abi.instance, items |-> d.abi.functions]
      [] s = "configurable" ->
           IF d.configurable = None THEN None
           ELSE [instance |-> d.configurable.instance, items |-> d.configurable.fields]
      [] s = "storage" ->
           IF d.storage = None THEN None
           ELSE [instance |-> d.storage.instance, items |-> d.storage.fields]
      [] s = "contract_impl" ->
           IF ContractImpls(d) = {} THEN None
           ELSE [instance |-> d.impls[contract_impl_index(d)].instance,
                 items |-> d.impls[contract_impl_index(d)].items]

\* a caller pushes an entry through the reference the accessor of s returned
push_through(d, s, item) ==
    CASE s = "events_enum" -> [d EXCEPT !.events_enum.variants = Append(@, item)]
      [] s = "errors_enum" -> [d EXCEPT !.errors_enum.variants = Append(@, item)]
      [] s = "abi" -> [d EXCEPT !.abi.functions = Append(@, item)]
      [] s = "configurable" -> [d EXCEPT !.configurable.fields = Append(@, item)]
      [] s = "storage" -> [d EXCEPT !.storage.fields = Append(@, item)]
      [] s = "contract_impl" ->
           [d EXCEPT !.impls[contract_impl_index(d)].items = Append(@, item)]

\* the call constructed a section: a section value that was not there before
Constructed(d, d2, s) ==
    IF s = "contract_impl"
      THEN Len(d2.impls) > Len(d.impls)
      ELSE /\ SectionOf(d2, s) # None
           /\ \/ SectionOf(d, s) = None
              \/ SectionOf(d2, s).instance # SectionOf(d, s).instance

InitDef ==
    /\ pc = "definition"
    /\ \E name \in DefinitionNames : definition = new(name, <<>>)
    /\ created = [s \in Sections |-> 0]
    /\ borrowed = None
    /\ IdleLines
    /\ IdleQueue
    /\ IdleContract
    /\ IdleRun
    /\ IdleType
    /\ IdleScope

\* one call of the accessor of section s
CallAccessor(s) ==
    /\ pc = "definition"
    /\ LET d2 == get_section(s, definition, created[s] + 1)
       IN  /\ definition' = d2
           /\ created' = IF Constructed(definition, d2, s)
                           THEN [created EXCEPT ![s] = @ + 1]
                           ELSE created
    /\ borrowed' = [section |-> s, existed |-> SectionOf(definition, s) # None]
    /\ UNCHANGED <<pc, linesVars, queueVars, contractVars, runVars, typeVars, scopeVars>>

GetEventsEnum == CallAccessor("events_enum")
GetErrorsEnum == CallAccessor("errors_enum")
GetAbi == CallAccessor("abi")
GetConfigurable == CallAccessor("configurable")
GetStorage == CallAccessor("storage")
GetContractImpl == CallAccessor("contract_impl")

\* the caller pushes an entry through the reference it holds
PushThroughReference ==
    /\ pc = "definition"
    /\ borrowed # None
    /\ Len(SectionOf(definition, borrowed.section).items) < MaxItems
    /\ definition' = push_through(definition, borrowed.section, Item)
    /\ UNCHANGED <<pc, created, borrowed, linesVars, queueVars, contractVars, runVars,
                   typeVars, scopeVars>>

NextDef ==
    \/ GetEventsEnum
    \/ GetErrorsEnum
    \/ GetAbi
    \/ GetConfigurable
    \/ GetStorage
    \/ GetContractImpl
    \/ PushThroughReference

SpecDef == InitDef /\ [][NextDef]_vars

\* s is a prefix of t
IsPrefix(s, t) == Len(s) <= Len(t) /\ \A k \in 1..Len(s) : s[k] = t[k]

\* no section was constructed twice, and impls holds at most one block for
\* (definition name, "Contract")
AtMostOneSection ==
    /\ \A s \in Sections : created[s] <= 1
    /\ Cardinality(ContractImpls(definition)) <= 1

\* a step keeps every existing section the same instance with its entries
\* intact, creates a section empty, and an accessor call that finds its section
\* changes nothing
SectionsKept ==
    /\ \A s \in Sections :
         /\ SectionOf(definition, s) # None =>
              /\ SectionOf(definition, s)' # None
              /\ SectionOf(definition, s)'.instance = SectionOf(definition, s).instance
              /\ IsPrefix(SectionOf(definition, s).items, SectionOf(definition, s)'.items)
         /\ (SectionOf(definition, s) = None /\ SectionOf(definition, s)' # None) =>
              /\ SectionOf(definition, s)'.items = <<>>
              /\ borrowed'.section = s
    /\ (borrowed' # borrowed /\ borrowed'.existed) => definition' = definition

\* C3: under every sequence of accessor calls each section exists at most once:
\* the first call of an accessor creates it empty, every later call returns the
\* same instance with the accumulated contents intact, and impls never holds
\* two blocks for (definition name, "Contract").
C3_SectionsCreatedOnce == [] AtMostOneSection /\ [][SectionsKept]_vars

\* every section exists and holds entries, and the last call was a repeated
\* get_abi that found the ABI it had created before
C3_Witness ==
    /\ pc = "definition"
    /\ borrowed # None
    /\ borrowed.section = "abi"
    /\ borrowed.existed
    /\ \A s \in Sections : created[s] = 1 /\ Len(SectionOf(definition, s).items) >= 1

(***************************************************************************)
(* Paths, file names and source units                                      *)
(***************************************************************************)
\* number of source files of the project
NPaths == 3

\* most import directives of a project whose queue is built
MaxImports == 3

\* canonical paths of the existing files; 0 stands for "no path"
Paths == 1..NPaths
NoPath == 0

\* the file names written in import directives and on the command line: name
\* n <= NPaths spells file n, name NPaths + 1 is a second spelling of file 1
\* (as "./a.sol" is of "a.sol"), name NPaths + 2 names no existing file
Names == 1..(NPaths + 2)

\* Path::canonicalize of a name joined to the directory of the project
canonicalize(name) ==
    IF name <= NPaths THEN [ok |-> TRUE, path |-> name]
    ELSE IF name = NPaths + 1 THEN [ok |-> TRUE, path |-> 1]
    ELSE [ok |-> FALSE]

\* solang_parser::pt::ImportPath
Filename(name) == [variant |-> "Filename", string |-> name]
ExperimentalPath == [variant |-> "Path"]

\* SourceUnitPart::ImportDirective(Import::Plain | GlobalSymbol | Rename)
ImportDirective(import, import_path) ==
    [kind |-> "ImportDirective", import |-> import, import_path |-> import_path]

ImportKinds == <<"Plain", "GlobalSymbol", "Rename">>

\* the import directives of the projects whose queue is built: every file name
\* is imported through one of the three directive forms, and one directive has
\* a non-file specifier
QueueDirectives ==
    {ImportDirective(ImportKinds[(n % 3) + 1], Filename(n)) : n \in Names}
        \cup {ImportDirective("Plain", ExperimentalPath)}

\* the elements of a sequence
Range(s) == {s[k] : k \in 1..Len(s)}

(***************************************************************************)
(* Project::create_conversion_queue                                        *)
(***************************************************************************)
\* Vec::remove(index), index 0-based
vec_remove(v, index) == [k \in 1..(Len(v) - 1) |-> IF k <= index THEN v[k] ELSE v[k + 1]]

\* Vec::insert(0, x)
vec_insert_front(v, x) == <<x>> \o v

\* conversion_queue.iter().enumerate().find(|(_, p)| import_path == p): the
\* 0-based index of the first equal entry
queue_find(queue, import_path) ==
    IF import_path \in Range(queue)
      THEN [found |-> TRUE,
            index |-> (CHOOSE k \in 1..Len(queue) :
                          /\ queue[k] = import_path
                          /\ \A j \in 1..(k - 1) : queue[j] # import_path) - 1]
      ELSE [found |-> FALSE]

\* a mutant of queue_import_path: a queued path is put in front without being
\* taken out first
queue_import_path_no_remove(queue, import_path) ==
    IF import_path.variant = "Filename"
      THEN LET c == canonicalize(import_path.string)
           IN  IF ~ c.ok THEN [status |-> "Err", queue |-> queue]
               ELSE LET f == queue_find(queue, c.path)
                    IN  IF f.found
                          THEN [status |-> "Ok", queue |-> vec_insert_front(queue, c.path)]
                          ELSE [status |-> "Ok", queue |-> Append(queue, c.path)]
      ELSE [status |-> "panic", queue |-> queue]

\* a mutant of queue_import_path: a queued path is moved to the back
queue_import_path_to_back(queue, import_path) ==
    IF import_path.variant = "Filename"
      THEN LET c == canonicalize(import_path.string)
           IN  IF ~ c.ok THEN [status |-> "Err", queue |-> queue]
               ELSE LET f == queue_find(queue, c.path)
                    IN  IF f.found
                          THEN [status |-> "Ok",
                                queue |-> Append(vec_remove(queue, f.index), c.path)]
                          ELSE [status |-> "Ok", queue |-> Append(queue, c.path)]
      ELSE [status |-> "panic", queue |-> queue]

\* the closure queue_import_path
queue_import_path(queue, import_path) ==
    IF import_path.variant = "Filename"
      THEN LET c == canonicalize(import_path.string)
           IN  IF ~ c.ok THEN [status |-> "Err", queue |-> queue]
               ELSE LET f == queue_find(queue, c.path)
                    IN  IF f.found
                          THEN [status |-> "Ok",
                                queue |-> vec_insert_front(vec_remove(queue, f.index), c.path)]
                          ELSE [status |-> "Ok", queue |-> Append(queue, c.path)]
      ELSE [status |-> "panic", queue |-> queue]

\* match import_directive: all three forms queue their import path
queue_import_directive(queue, part) ==
    CASE part.import = "Plain" -> queue_import_path(queue, part.import_path)
      [] part.import = "GlobalSymbol" -> queue_import_path(queue, part.import_path)
      [] part.import = "Rename" -> queue_import_path(queue, part.import_path)

\* the parts of the unit being scanned
UnitParts == solidity_source_units[unit]

\* the inner loop over the parts of the current unit has ended (or none began)
UnitExhausted == IF unit = NoPath THEN TRUE ELSE part_index > Len(UnitParts)

\* the units given by a list of <<path, import directive>> pairs: each path
\* gets its directives in the order of the list
UnitsOf(flat) ==
    [p \in Paths |->
        LET mine == SelectSeq(flat, LAMBDA e : e[1] = p)
        IN  [k \in 1..Len(mine) |-> mine[k][2]]]

\* create_conversion_queue starts on a cache of parsed units
InitQueue ==
    /\ pc = "create_conversion_queue"
    /\ \E flat \in SeqsUpTo(Paths \X QueueDirectives, MaxImports) :
          solidity_source_units = UnitsOf(flat)
    /\ conversion_queue = <<>>
    /\ pending = Paths
    /\ unit = NoPath
    /\ part_index = 0
    /\ outcome = "running"
    /\ IdleLines
    /\ IdleDef
    /\ IdleType
    /\ IdleScope
    /\ IdleContract
    /\ IdleRun

\* the outer loop: the HashMap iterator yields the next unit, in any order
NextSourceUnit ==
    /\ pc = "create_conversion_queue"
    /\ UnitExhausted
    /\ \E p \in pending :
          /\ unit' = p
          /\ pending' = pending \ {p}
    /\ part_index' = 1
    /\ UNCHANGED <<pc, solidity_source_units, conversion_queue, outcome, linesVars,
                   defVars, typeVars, scopeVars, contractVars, runVars>>

\* the run ends in failure: an Err is returned to main, which prints it as one
\* line on standard error; a panic prints its message there and aborts
Fail(status) ==
    /\ outcome' = status
    /\ pc' = "exit"
    /\ stderr' = Append(stderr, status)

\* the inner loop: one part of the current unit
ScanSourceUnitPart ==
    /\ pc = "create_conversion_queue"
    /\ ~ UnitExhausted
    /\ LET part == UnitParts[part_index]
       IN  IF part.kind # "ImportDirective"
             THEN /\ part_index' = part_index + 1
                  /\ UNCHANGED <<pc, conversion_queue, outcome, stderr>>
             ELSE LET r == queue_import_directive(conversion_queue, part)
                  IN  IF r.status = "Ok"
                        THEN /\ conversion_queue' = r.queue
                             /\ part_index' = part_index + 1
                             /\ UNCHANGED <<pc, outcome, stderr>>
                        ELSE /\ Fail(r.status)
                             /\ UNCHANGED <<conversion_queue, part_index>>
    /\ UNCHANGED <<solidity_source_units, pending, unit, linesVars, defVars, typeVars,
                   scopeVars, contractVars,
                   fs, contract_files, file_index, parse_calls, queue_index>>

\* Ok(conversion_queue): translate goes on to its loop over the queue
ReturnQueue ==
    /\ pc = "create_conversion_queue"
    /\ UnitExhausted
    /\ pending = {}
    /\ pc' = "translate"
    /\ unit' = NoPath
    /\ part_index' = 0
    /\ queue_index' = 1
    /\ UNCHANGED <<solidity_source_units, conversion_queue, pending, outcome, linesVars,
                   defVars, typeVars, scopeVars, contractVars, fs, contract_files,
                   file_index, parse_calls, stderr>>

NextQueue ==
    \/ NextSourceUnit
    \/ ScanSourceUnitPart
    \/ ReturnQueue

SpecQueue == InitQueue /\ [][NextQueue]_vars

\* the canonical paths of the import directives of a unit, in order
ImportTargets(parts) ==
    LET imports == SelectSeq(parts, LAMBDA part :
                       /\ part.kind = "ImportDirective"
                       /\ part.import_path.variant = "Filename"
                       /\ canonicalize(part.import_path.string).ok)
    IN  [k \in 1..Len(imports) |-> canonicalize(imports[k].import_path.string).path]

\* the unit has only import directives of existing files
OnlyFileImports(parts) == Len(ImportTargets(parts)) = Len(parts)

\* x is in the queue, y is in the queue, and x comes first
Precedes(queue, x, y) ==
    \E i, j \in 1..Len(queue) : i < j /\ queue[i] = x /\ queue[j] = y

\* the cache is a chain: a imports b, b imports c, and nothing else is imported
IsChain(a, b, c) ==
    /\ a # b /\ b # c /\ a # c
    /\ \A p \in Paths : OnlyFileImports(solidity_source_units[p])
    /\ ImportTargets(solidity_source_units[a]) = <<b>>
    /\ ImportTargets(solidity_source_units[b]) = <<c>>
    /\ \A p \in Paths \ {a, b} : ImportTargets(solidity_source_units[p]) = <<>>

\* C1: for files A, B, C where A imports B and B imports C the returned queue
\* has C before B and B before A, whatever order the units are scanned in.
C1_ChainOrder ==
    (pc = "translate" /\ outcome = "running") =>
        \A a, b, c \in Paths :
            IsChain(a, b, c) =>
                /\ Precedes(conversion_queue, c, b)
                /\ Precedes(conversion_queue, b, a)

\* the queue with every occurrence of x taken out
Without(queue, x) == SelectSeq(queue, LAMBDA y : y # x)

\* the step processes an import directive that resolves to a file path
ResolvingImport ==
    /\ pc = "create_conversion_queue"
    /\ ~ UnitExhausted
    /\ UnitParts[part_index].kind = "ImportDirective"
    /\ UnitParts[part_index].import \in Range(ImportKinds)
    /\ UnitParts[part_index].import_path.variant = "Filename"
    /\ canonicalize(UnitParts[part_index].import_path.string).ok

\* C2: an import directive (plain, global-symbol or renamed) that resolves to
\* path P moves P to index 0 when P is queued, the other entries keeping their
\* relative order, and appends P at the back when it is not, no other entry moving.
C2_PromoteOrAppend ==
    [][ResolvingImport =>
          LET P == canonicalize(UnitParts[part_index].import_path.string).path
          IN  conversion_queue' =
                IF P \in Range(conversion_queue)
                  THEN <<P>> \o Without(conversion_queue, P)
                  ELSE Append(conversion_queue, P)]_vars

\* the directive just processed named a path that was queued behind another
\* one and now heads the queue
C2_Witness ==
    /\ pc = "create_conversion_queue"
    /\ unit # NoPath
    /\ part_index > 1
    /\ part_index - 1 <= Len(UnitParts)
    /\ UnitParts[part_index - 1].kind = "ImportDirective"
    /\ UnitParts[part_index - 1].import = "Rename"
    /\ UnitParts[part_index - 1].import_path.variant = "Filename"
    /\ canonicalize(UnitParts[part_index - 1].import_path.string).ok
    /\ Len(conversion_queue) >= 2
    /\ conversion_queue[1] = canonicalize(UnitParts[part_index - 1].import_path.string).path

(***************************************************************************)
(* Identifiers, case conversion and Project::translate_type_name           *)
(***************************************************************************)
\* the lower-case letter of each upper-case letter of the identifiers used
LowerCase == ("O" :> "o") @@ ("S" :> "s")

\* identifiers are sequences of characters
BalanceOf == <<"b", "a", "l", "a", "n", "c", "e", "O", "f">>
TotalSupply == <<"t", "o", "t", "a", "l", "S", "u", "p", "p", "l", "y">>

\* the upper-case letter of each lower-case letter of the identifiers used
UpperCase ==
    ("a" :> "A") @@ ("l" :> "L") @@ ("o" :> "O") @@ ("p" :> "P") @@ ("s" :> "S")
        @@ ("t" :> "T") @@ ("u" :> "U") @@ ("y" :> "Y")

\* Casing::to_case(Case::Snake): a word starts at each upper-case letter, the
\* words are lower-cased and joined by "_"
RECURSIVE to_snake_from(_, _)
to_snake_from(name, k) ==
    IF k > Len(name) THEN ""
    ELSE (IF name[k] \in DOMAIN LowerCase
            THEN (IF k > 1 THEN "_" ELSE "") \o LowerCase[name[k]]
            ELSE name[k]) \o to_snake_from(name, k + 1)

to_snake(name) == to_snake_from(name, 1)

\* Identifier::name.clone() / to_string(): the characters as they are
RECURSIVE to_string_from(_, _)
to_string_from(name, k) ==
    IF k > Len(name) THEN "" ELSE name[k] \o to_string_from(name, k + 1)

to_string(name) == to_string_from(name, 1)

\* Casing::to_case(Case::UpperSnake): the same words, upper-cased
RECURSIVE to_upper_snake_from(_, _)
to_upper_snake_from(name, k) ==
    IF k > Len(name) THEN ""
    ELSE (IF name[k] \in DOMAIN LowerCase
            THEN (IF k > 1 THEN "_" ELSE "") \o name[k]
            ELSE UpperCase[name[k]]) \o to_upper_snake_from(name, k + 1)

to_upper_snake(name) == to_upper_snake_from(name, 1)

\* a mutant of translate_type_name: uint256 keeps its width
translate_type_name_wide(source_unit_path, type_name) ==
    [name |-> CASE type_name = "uint" -> "u64"
                [] type_name = "uint256" -> "u256"
                [] type_name \in {"address", "address payable"} -> "Address"
                [] OTHER -> type_name,
     generic_parameters |-> <<>>]

\* Project::translate_type_name
translate_type_name(source_unit_path, type_name) ==
    [name |-> CASE type_name \in {"uint", "uint256"} -> "u64"
                [] type_name \in {"address", "address payable"} -> "Address"
                [] OTHER -> type_name,
     generic_parameters |-> <<>>]

(***************************************************************************)
(* Contract definitions and their parts (solang_parser::pt)                *)
(***************************************************************************)
\* most parts of a contract given to translate_contract_definition
MaxMembers == 2

\* Visibility, and the absence of a visibility attribute
Visibilities == {"External", "Public", "Internal", "Private"}
NoVisibility == "none"

\* the attribute list of a state variable
variable_attrs(visibility, constant, immutable) ==
    (IF visibility = NoVisibility THEN <<>>
     ELSE <<[attr |-> "Visibility", visibility |-> visibility]>>)
    \o (IF constant THEN <<[attr |-> "Constant"]>> ELSE <<>>)
    \o (IF immutable THEN <<[attr |-> "Immutable"]>> ELSE <<>>)

\* the attribute list of a function
function_attrs(visibility) ==
    IF visibility = NoVisibility THEN <<>>
    ELSE <<[attr |-> "Visibility", visibility |-> visibility]>>

\* ContractPart::VariableDefinition
VariableDefinitions ==
    {[kind |-> "VariableDefinition", attrs |-> variable_attrs(v, c, i),
      name |-> Some(TotalSupply), ty |-> "uint256"] :
        v \in Visibilities \cup {NoVisibility}, c \in BOOLEAN, i \in BOOLEAN}

FunctionTys == {"Constructor", "Function", "Fallback", "Receive", "Modifier"}

\* ContractPart::FunctionDefinition; name is an Option: functions and
\* modifiers are named, constructor, fallback and receive have no name
FunctionDefinitions ==
    {[kind |-> "FunctionDefinition", ty |-> ty, attributes |-> function_attrs(v),
      name |-> IF ty \in {"Function", "Modifier"} THEN Some(BalanceOf) ELSE None] :
        ty \in FunctionTys, v \in Visibilities \cup {NoVisibility}}

\* the other parts of a contract
OtherContractParts ==
    {[kind |-> "StructDefinition", name |-> Some(<<"A", "c", "c", "o", "u", "n", "t">>),
      fields |-> <<[name |-> Some(TotalSupply), ty |-> "address"]>>],
     [kind |-> "EventDefinition", name |-> Some(<<"S", "e", "n", "t">>),
      fields |-> <<[name |-> None, ty |-> "address"], [name |-> None, ty |-> "uint256"]>>],
     [kind |-> "EnumDefinition"],
     [kind |-> "ErrorDefinition", name |-> Some(<<"E", "m", "p", "t", "y">>),
      fields |-> <<>>],
     [kind |-> "TypeDefinition", name |-> Some(<<"A", "m", "o", "u", "n", "t">>), ty |-> "uint"],
     [kind |-> "Annotation"], [kind |-> "Using"], [kind |-> "StraySemicolon"]}

ContractParts == VariableDefinitions \cup FunctionDefinitions \cup OtherContractParts

\* SourceUnitPart::ContractDefinition
ContractDefinition(ty, name, parts) ==
    [kind |-> "ContractDefinition", ty |-> ty, name |-> name, parts |-> parts]

(***************************************************************************)
(* sway::Module                                                            *)
(***************************************************************************)
\* sway::Module::new
new_module(kind) == [kind |-> kind, items |-> <<>>]

\* the indices of the items of a module that are of a variant
ItemsOf(m, variant) == {k \in 1..Len(m.items) : m.items[k].variant = variant}

\* the least element of a non-empty set of indices
First(S) == CHOOSE k \in S : \A j \in S : k <= j

\* sway::Module::get_or_create_abi: the module with the ABI block present
get_or_create_abi(m, abi_name) ==
    IF ItemsOf(m, "Abi") # {} THEN m
    ELSE [m EXCEPT !.items = Append(@, [variant |-> "Abi", name |-> abi_name,
                                         functions |-> <<>>])]

\* sway::Module::get_or_create_storage
get_or_create_storage(m) ==
    IF ItemsOf(m, "Storage") # {} THEN m
    ELSE [m EXCEPT !.items = Append(@, [variant |-> "Storage", fields |-> <<>>])]

\* sway::Module::get_or_create_impl_for
get_or_create_impl_for(m, type_name, for_type_name) ==
    IF ItemsOf(m, "Impl") # {} THEN m
    ELSE [m EXCEPT !.items = Append(@, [variant |-> "Impl", type_name |-> type_name,
                                         for_type_name |-> for_type_name,
                                         items |-> <<>>])]

(***************************************************************************)
(* Project::translate_contract_definition                                  *)
(***************************************************************************)
\* the placeholder expression todo!()
TodoCall ==
    [variant |-> "FunctionCall", function |-> "todo!", generic_parameters |-> None,
     parameters |-> <<>>]

\* attrs.iter().any(Visibility(External | Public))
is_public(attrs) ==
    \E k \in 1..Len(attrs) :
        /\ attrs[k].attr = "Visibility"
        /\ attrs[k].visibility \in {"External", "Public"}

has_attr(attrs, attr) == \E k \in 1..Len(attrs) : attrs[k].attr = attr

\* ContractPart::StructDefinition
translate_struct(source_unit_path, m, part) ==
    [status |-> "Ok",
     module |-> [m EXCEPT !.items = Append(@,
        [variant |-> "Struct", is_public |-> TRUE, name |-> to_string(part.name.value),
         generic_parameters |-> <<>>,
         fields |-> [k \in 1..Len(part.fields) |->
            [is_public |-> TRUE, name |-> to_snake(part.fields[k].name.value),
             type_name |-> translate_type_name(source_unit_path, part.fields[k].ty)]]])]]

\* a mutant of translate_variable: the immutable attribute is tested first
translate_variable_immutable_first(source_unit_path, m, part) ==
    IF has_attr(part.attrs, "Immutable")
      THEN [status |-> "panic", module |-> m]
    ELSE IF has_attr(part.attrs, "Constant")
      THEN [status |-> "Ok",
            module |-> [m EXCEPT !.items = Append(@,
               [variant |-> "Constant", is_public |-> is_public(part.attrs),
                name |-> to_upper_snake(part.name.value),
                type_name |-> translate_type_name(source_unit_path, part.ty),
                value |-> TodoCall])]]
    ELSE LET m1 == get_or_create_storage(m)
             storage == First(ItemsOf(m1, "Storage"))
         IN  [status |-> "Ok",
              module |-> [m1 EXCEPT !.items[storage].fields = Append(@,
                 [name |-> to_snake(part.name.value),
                  type_name |-> translate_type_name(source_unit_path, part.ty),
                  value |-> TodoCall])]]

\* a mutant of translate_variable: every constant is made public
translate_variable_public_constant(source_unit_path, m, part) ==
    IF has_attr(part.attrs, "Constant")
      THEN [status |-> "Ok",
            module |-> [m EXCEPT !.items = Append(@,
               [variant |-> "Constant", is_public |-> TRUE,
                name |-> to_upper_snake(part.name.value),
                type_name |-> translate_type_name(source_unit_path, part.ty),
                value |-> TodoCall])]]
    ELSE IF has_attr(part.attrs, "Immutable")
      THEN [status |-> "panic", module |-> m]
    ELSE LET m1 == get_or_create_storage(m)
             storage == First(ItemsOf(m1, "Storage"))
         IN  [status |-> "Ok",
              module |-> [m1 EXCEPT !.items[storage].fields = Append(@,
                 [name |-> to_snake(part.name.value),
                  type_name |-> translate_type_name(source_unit_path, part.ty),
                  value |-> TodoCall])]]

\* ContractPart::VariableDefinition
translate_variable(source_unit_path, m, part) ==
    IF has_attr(part.attrs, "Constant")
      THEN [status |-> "Ok",
            module |-> [m EXCEPT !.items = Append(@,
               [variant |-> "Constant", is_public |-> is_public(part.attrs),
                name |-> to_upper_snake(part.name.value),
                type_name |-> translate_type_name(source_unit_path, part.ty),
                value |-> TodoCall])]]
    ELSE IF has_attr(part.attrs, "Immutable")
      THEN [status |-> "panic", module |-> m]
    ELSE LET m1 == get_or_create_storage(m)
             storage == First(ItemsOf(m1, "Storage"))
         IN  [status |-> "Ok",
              module |-> [m1 EXCEPT !.items[storage].fields = Append(@,
                 [name |-> to_snake(part.name.value),
                  type_name |-> translate_type_name(source_unit_path, part.ty),
                  value |-> TodoCall])]]

\* the sway::Function of a promoted function, without body
function_signature(name) ==
    [is_public |-> FALSE, name |-> name, generic_parameters |-> <<>>,
     parameters |-> <<>>, return_type |-> None, body |-> None]

\* a mutant of translate_function: the body entry is put in front of the block
translate_function_impl_front(m, contract_name, part) ==
    LET is_constructor == part.ty = "Constructor"
        is_modifier == part.ty = "Modifier"
    IN  IF is_modifier THEN [status |-> "Ok", module |-> m]
        ELSE IF is_public(part.attributes) \/ is_constructor
          THEN LET m1 == get_or_create_abi(m, contract_name)
                   abi == First(ItemsOf(m1, "Abi"))
               IN  IF ~ is_constructor /\ part.name = None
                     \* function_definition.name.as_ref().unwrap()
                     THEN [status |-> "panic", module |-> m1]
                     ELSE LET function == function_signature(
                                  IF is_constructor THEN "constructor"
                                  ELSE to_snake(part.name.value))
                              m2 == [m1 EXCEPT !.items[abi].functions = Append(@, function)]
                              m3 == get_or_create_impl_for(m2, contract_name, "Contract")
                              impl_for == First(ItemsOf(m3, "Impl"))
                          IN  [status |-> "Ok",
                               module |-> [m3 EXCEPT !.items[impl_for].items =
                                  <<[variant |-> "Function",
                                     function |-> [function EXCEPT !.body =
                                        [statements |-> <<>>,
                                         final_expr |-> TodoCall]]]>> \o @]]
          ELSE [status |-> "Ok", module |-> m]

\* ContractPart::FunctionDefinition
translate_function(m, contract_name, part) ==
    LET is_constructor == part.ty = "Constructor"
        is_modifier == part.ty = "Modifier"
    IN  IF is_modifier THEN [status |-> "Ok", module |-> m]
        ELSE IF is_public(part.attributes) \/ is_constructor
          THEN LET m1 == get_or_create_abi(m, contract_name)
                   abi == First(ItemsOf(m1, "Abi"))
               IN  IF ~ is_constructor /\ part.name = None
                     \* function_definition.name.as_ref().unwrap()
                     THEN [status |-> "panic", module |-> m1]
                     ELSE LET function == function_signature(
                                  IF is_constructor THEN "constructor"
                                  ELSE to_snake(part.name.value))
                              m2 == [m1 EXCEPT !.items[abi].functions = Append(@, function)]
                              m3 == get_or_create_impl_for(m2, contract_name, "Contract")
                              impl_for == First(ItemsOf(m3, "Impl"))
                          IN  [status |-> "Ok",
                               module |-> [m3 EXCEPT !.items[impl_for].items = Append(@,
                                  [variant |-> "Function",
                                   function |-> [function EXCEPT !.body =
                                      [statements |-> <<>>, final_expr |-> TodoCall]]])]]
          ELSE [status |-> "Ok", module |-> m]

\* ContractPart::TypeDefinition
translate_type_definition(source_unit_path, m, part) ==
    [status |-> "Ok",
     module |-> [m EXCEPT !.items = Append(@,
        [variant |-> "TypeDefinition", is_public |-> TRUE,
         name |-> [name |-> to_string(part.name.value), generic_parameters |-> <<>>],
         underlying_type |-> translate_type_name(source_unit_path, part.ty)])]]

\* one iteration of the loop over contract_definition.parts
translate_contract_part(source_unit_path, m, contract_name, part) ==
    CASE part.kind = "StructDefinition" -> translate_struct(source_unit_path, m, part)
      [] part.kind = "VariableDefinition" -> translate_variable(source_unit_path, m, part)
      [] part.kind = "FunctionDefinition" -> translate_function(m, contract_name, part)
      [] part.kind = "TypeDefinition" -> translate_type_definition(source_unit_path, m, part)
      [] part.kind \in {"EventDefinition", "EnumDefinition", "ErrorDefinition",
                        "Annotation", "Using", "StraySemicolon"} ->
           [status |-> "Ok", module |-> m]

\* the path of the unit of the contract of SpecContract
ContractPath == 1

\* pragma solidity ..;
PragmaDirective == [kind |-> "PragmaDirective"]

\* translate_contract_definition is called on a contract definition
InitContract ==
    /\ pc = "translate_contract_definition"
    /\ \E ty \in {"Contract", "Abstract"}, parts \in SeqsUpTo(ContractParts, MaxMembers) :
          contract = ContractDefinition(ty, "Token", parts)
    /\ module = None
    /\ member_index = 0
    /\ stdout = <<>>
    /\ outcome = "running"
    /\ solidity_source_units = (ContractPath :> <<PragmaDirective, contract>>)
    /\ conversion_queue = <<ContractPath>>
    /\ pending = {}
    /\ unit = ContractPath
    /\ part_index = 2
    /\ IdleLines
    /\ IdleDef
    /\ IdleType
    /\ IdleScope
    /\ IdleRun

\* sway::Module::new(match &contract_definition.ty ..)
NewModule ==
    /\ pc = "translate_contract_definition"
    /\ IF contract.ty = "Contract"
         THEN /\ module' = new_module("Contract")
              /\ member_index' = 1
              /\ pc' = "contract_parts"
              /\ UNCHANGED <<outcome, stderr>>
         ELSE /\ Fail("panic")
              /\ UNCHANGED <<module, member_index>>
    /\ UNCHANGED <<contract, stdout, solidity_source_units, conversion_queue, pending,
                   unit, part_index, linesVars, defVars, typeVars, scopeVars, fs,
                   contract_files, file_index,
                   parse_calls, queue_index>>

\* the loop over contract_definition.parts: one part
TranslateContractPart ==
    /\ pc = "contract_parts"
    /\ member_index <= Len(contract.parts)
    /\ LET r == translate_contract_part(unit, module, contract.name,
                                        contract.parts[member_index])
       IN  /\ module' = r.module
           /\ IF r.status = "Ok"
                THEN /\ member_index' = member_index + 1
                     /\ UNCHANGED <<pc, outcome, stderr>>
                ELSE /\ Fail(r.status)
                     /\ UNCHANGED member_index
    /\ UNCHANGED <<contract, stdout, solidity_source_units, conversion_queue, pending,
                   unit, part_index, linesVars, defVars, typeVars, scopeVars, fs,
                   contract_files, file_index,
                   parse_calls, queue_index>>

\* println!("{}", sway::TabbedDisplayer(&module)); Ok(()): translate goes on
\* to the next part of the unit
PrintModule ==
    /\ pc = "contract_parts"
    /\ member_index > Len(contract.parts)
    /\ stdout' = Append(stdout, [printed |-> "module", value |-> module])
    /\ pc' = "translate"
    /\ part_index' = part_index + 1
    /\ UNCHANGED <<contract, module, member_index, outcome, solidity_source_units,
                   conversion_queue, pending, unit, linesVars, defVars, typeVars,
                   scopeVars, runVars>>

NextContract ==
    \/ NewModule
    \/ TranslateContractPart
    \/ PrintModule

SpecContract == InitContract /\ [][NextContract]_vars

\* the function entries of the ABI of a module, none while it has no ABI
AbiFunctions(m) ==
    IF ItemsOf(m, "Abi") = {} THEN <<>>
    ELSE m.items[First(ItemsOf(m, "Abi"))].functions

\* the fields of the storage block of a module, none while it has no block
StorageFields(m) ==
    IF ItemsOf(m, "Storage") = {} THEN <<>>
    ELSE m.items[First(ItemsOf(m, "Storage"))].fields

\* the indices of the constants of a module that are public
VisibleConstants(m) == {k \in ItemsOf(m, "Constant") : m.items[k].is_public}

NotStorage(item) == item.variant # "Storage"

\* the loop of translate_contract_definition is about to process a part
MemberStep == pc = "contract_parts" /\ member_index <= Len(contract.parts)

\* the part it is about to process
Member == contract.parts[member_index]

\* the part it processed last
LastMember == contract.parts[member_index - 1]

\* C8: a function member is added to the ABI iff it is the constructor or is
\* marked public/external; a private/internal or unmarked non-constructor
\* function, and every modifier, adds nothing to the ABI, to an implementation
\* block or to the module.
C8_PromotedIffPublicOrConstructor ==
    [][(MemberStep /\ Member.kind = "FunctionDefinition") =>
          IF /\ Member.ty # "Modifier"
             /\ (Member.ty = "Constructor" \/ is_public(Member.attributes))
            THEN /\ Len(AbiFunctions(module')) = Len(AbiFunctions(module)) + 1
                 /\ IsPrefix(AbiFunctions(module), AbiFunctions(module'))
            ELSE module' = module]_vars

\* the step made the variable a visible constant
BecameVisibleConstant ==
    Cardinality(VisibleConstants(module')) =
        Cardinality(VisibleConstants(module)) + 1

\* the step made the variable a storage field
BecameStorageField == Len(StorageFields(module')) = Len(StorageFields(module)) + 1

C10_VariableCases ==
    [][(MemberStep /\ Member.kind = "VariableDefinition") =>
          IF has_attr(Member.attrs, "Constant")
            THEN /\ Len(module'.items) = Len(module.items) + 1
                 /\ IsPrefix(module.items, module'.items)
                 /\ module'.items[Len(module'.items)].variant = "Constant"
                 /\ module'.items[Len(module'.items)].is_public = is_public(Member.attrs)
                 /\ outcome' = "running"
                 /\ member_index' = member_index + 1
          ELSE IF has_attr(Member.attrs, "Immutable")
            THEN /\ module' = module
                 /\ outcome' \notin {"running", "Ok"}
                 /\ pc' = "exit"
                 /\ stdout' = stdout
          ELSE /\ Cardinality(ItemsOf(module', "Storage")) = 1
               /\ Len(StorageFields(module')) = Len(StorageFields(module)) + 1
               /\ IsPrefix(StorageFields(module), StorageFields(module'))
               /\ SelectSeq(module'.items, NotStorage) = SelectSeq(module.items, NotStorage)
               /\ outcome' = "running"
               /\ member_index' = member_index + 1]_vars

\* a plain variable became the one field of the storage block, and then a
\* variable that is constant and immutable was added as a constant
C10_Witness ==
    /\ pc = "contract_parts"
    /\ member_index = 3
    /\ contract.parts[1].kind = "VariableDefinition"
    /\ ~ has_attr(contract.parts[1].attrs, "Constant")
    /\ ~ has_attr(contract.parts[1].attrs, "Immutable")
    /\ contract.parts[2].kind = "VariableDefinition"
    /\ has_attr(contract.parts[2].attrs, "Constant")
    /\ has_attr(contract.parts[2].attrs, "Immutable")
    /\ Len(StorageFields(module)) = 1
    /\ Cardinality(ItemsOf(module, "Constant")) = 1

\* the items of the implementation block of a module, none while it has no block
ImplItems(m) ==
    IF ItemsOf(m, "Impl") = {} THEN <<>>
    ELSE m.items[First(ItemsOf(m, "Impl"))].items

\* one ABI at most, one implementation block at most, and entry for entry the
\* same names: a signature without body in the ABI, a function with a body in
\* the block
AbiMatchesImpl ==
    module # None =>
        /\ Cardinality(ItemsOf(module, "Abi")) <= 1
        /\ Cardinality(ItemsOf(module, "Impl")) <= 1
        /\ \A k \in ItemsOf(module, "Impl") :
              /\ module.items[k].type_name = contract.name
              /\ module.items[k].for_type_name = "Contract"
        /\ Len(AbiFunctions(module)) = Len(ImplItems(module))
        /\ \A k \in 1..Len(AbiFunctions(module)) :
              /\ AbiFunctions(module)[k].name = ImplItems(module)[k].function.name
              /\ AbiFunctions(module)[k].body = None
              /\ ImplItems(module)[k].variant = "Function"
              /\ ImplItems(module)[k].function.body # None

\* the step on a constructor adds the entry "constructor" to both
ConstructorNamed ==
    (MemberStep /\ Member.kind = "FunctionDefinition" /\ Member.ty = "Constructor") =>
        /\ Len(AbiFunctions(module')) = Len(AbiFunctions(module)) + 1
        /\ AbiFunctions(module')[Len(AbiFunctions(module'))].name = "constructor"
        /\ ImplItems(module')[Len(ImplItems(module'))].function.name = "constructor"

\* C11: after any sequence of members the module has at most one ABI and at
\* most one implementation block for (contract name, "Contract"); the ABI's
\* functions and the block's items have the same length and the same names in
\* the same order, and a constructor's entry is named "constructor" in both.
C11_AbiAndImplAgree == [] AbiMatchesImpl /\ [][ConstructorNamed]_vars

\* a constructor and then a public function were promoted: two entries in each
C11_Witness ==
    /\ pc = "contract_parts"
    /\ member_index = 3
    /\ contract.parts[1].kind = "FunctionDefinition"
    /\ contract.parts[1].ty = "Constructor"
    /\ contract.parts[2].kind = "FunctionDefinition"
    /\ contract.parts[2].ty = "Function"
    /\ is_public(contract.parts[2].attributes)
    /\ Len(AbiFunctions(module)) = 2
    /\ Len(ImplItems(module)) = 2
    /\ AbiFunctions(module)[1].name = "constructor"
    /\ AbiFunctions(module)[2].name = "balance_of"

(***************************************************************************)
(* Project::parse_solidity_source_unit and Project::try_from               *)
(***************************************************************************)
\* most entries of contract_files
MaxFiles == 2

\* a file: whether read_to_string succeeds, its text, and what
\* solang_parser::parse makes of the text
File(readable, text, parsed) == [readable |-> readable, source |-> text, unit |-> parsed]

\* the results of solang_parser::parse
Parsed(parts) == [ok |-> TRUE, parts |-> parts]
SyntaxError == [ok |-> FALSE]

\* a mutant of parse_solidity_source_unit: a file that does not parse loses
\* its entry in the cache
parse_solidity_source_unit_evict(files, name, table, units, calls) ==
    LET c == canonicalize(name)
    IN  IF ~ c.ok
          THEN [status |-> "Err", line_ranges |-> table, units |-> units, calls |-> calls]
        ELSE IF ~ files[c.path].readable
          THEN [status |-> "Err", line_ranges |-> table, units |-> units, calls |-> calls]
        ELSE LET t == load_line_ranges(table, c.path, files[c.path].source)
                 n == [calls EXCEPT ![c.path] = @ + 1]
             IN  IF c.path \notin DOMAIN t
                   \* self.line_ranges.get(&path).unwrap()
                   THEN [status |-> "panic", line_ranges |-> t, units |-> units,
                         calls |-> calls]
                 ELSE IF ~ files[c.path].unit.ok
                   THEN [status |-> "Err", line_ranges |-> t,
                         units |-> [q \in DOMAIN units \ {c.path} |-> units[q]],
                         calls |-> n]
                 ELSE [status |-> "Ok", line_ranges |-> t,
                       units |-> [q \in DOMAIN units \cup {c.path} |->
                                     IF q = c.path THEN files[c.path].unit.parts
                                     ELSE units[q]],
                       calls |-> n]

\* Project::parse_solidity_source_unit on the file system files: the status it
\* returns with, and line_ranges, solidity_source_units and the count of
\* parser runs as it leaves them
parse_solidity_source_unit(files, name, table, units, calls) ==
    LET c == canonicalize(name)
    IN  IF ~ c.ok
          THEN [status |-> "Err", line_ranges |-> table, units |-> units, calls |-> calls]
        ELSE IF ~ files[c.path].readable
          THEN [status |-> "Err", line_ranges |-> table, units |-> units, calls |-> calls]
        ELSE LET t == load_line_ranges(table, c.path, files[c.path].source)
                 n == [calls EXCEPT ![c.path] = @ + 1]
             IN  IF c.path \notin DOMAIN t
                   \* self.line_ranges.get(&path).unwrap()
                   THEN [status |-> "panic", line_ranges |-> t, units |-> units,
                         calls |-> calls]
                 ELSE IF ~ files[c.path].unit.ok
                   THEN [status |-> "Err", line_ranges |-> t, units |-> units, calls |-> n]
                 ELSE [status |-> "Ok", line_ranges |-> t,
                       units |-> [q \in DOMAIN units \cup {c.path} |->
                                     IF q = c.path THEN files[c.path].unit.parts
                                     ELSE units[q]],
                       calls |-> n]

\* the texts of the files that are loaded
LoadTexts == {<<"a">>, <<"a", NL>>, <<"a", NL, "b", NL>>}

\* the files of the projects that are loaded
LoadFiles ==
    {File(TRUE, text, parsed) : text \in LoadTexts, parsed \in {Parsed(<<>>), SyntaxError}}
        \cup {File(FALSE, <<>>, SyntaxError)}

\* Project::default() and the options of the run
InitLoad ==
    /\ pc = "try_from"
    /\ fs \in [Paths -> LoadFiles]
    /\ contract_files \in SeqsUpTo(Names, MaxFiles) \ {<<>>}
    /\ file_index = 1
    /\ parse_calls = [p \in Paths |-> 0]
    /\ line_ranges = EmptyMap
    /\ solidity_source_units = EmptyMap
    /\ conversion_queue = <<>>
    /\ pending = {}
    /\ unit = NoPath
    /\ part_index = 0
    /\ queue_index = 0
    /\ outcome = "running"
    /\ stdout = <<>>
    /\ stderr = <<>>
    /\ source = <<>>
    /\ contract = None
    /\ module = None
    /\ member_index = 0
    /\ IdleDef
    /\ IdleType
    /\ IdleScope

\* Project::try_from: the loop over options.contract_files, one entry
ParseContractFile ==
    /\ pc = "try_from"
    /\ file_index <= Len(contract_files)
    /\ LET r == parse_solidity_source_unit(fs, contract_files[file_index], line_ranges,
                                           solidity_source_units, parse_calls)
       IN  /\ line_ranges' = r.line_ranges
           /\ solidity_source_units' = r.units
           /\ parse_calls' = r.calls
           /\ IF r.status = "Ok"
                THEN /\ file_index' = file_index + 1
                     /\ UNCHANGED <<pc, outcome, stderr>>
                ELSE /\ Fail(r.status)
                     /\ UNCHANGED file_index
    /\ UNCHANGED <<source, defVars, typeVars, scopeVars, conversion_queue, pending,
                   unit, part_index,
                   contractVars, fs, contract_files, queue_index>>

\* Ok(project): translate_project goes on to project.translate(), which starts
\* with create_conversion_queue
ProjectLoaded ==
    /\ pc = "try_from"
    /\ file_index > Len(contract_files)
    /\ pc' = "create_conversion_queue"
    /\ conversion_queue' = <<>>
    /\ pending' = DOMAIN solidity_source_units
    /\ unit' = NoPath
    /\ part_index' = 0
    /\ UNCHANGED <<linesVars, defVars, typeVars, scopeVars, solidity_source_units,
                   outcome, contractVars, runVars>>

NextLoad ==
    \/ ParseContractFile
    \/ ProjectLoaded

SpecLoad == InitLoad /\ [][NextLoad]_vars

\* the canonical paths of the entries of contract_files loaded so far
LoadedPaths ==
    {canonicalize(contract_files[k]).path : k \in 1..(file_index - 1)}

\* C5: loading the same input path twice is idempotent: the cache holds one
\* entry for the canonical path, the file is not parsed a second time, and the
\* line-range table of the path is the list of spans of the first load.
C5_IdempotentLoad ==
    \A p \in LoadedPaths :
        /\ p \in DOMAIN solidity_source_units
        /\ parse_calls[p] <= 1
        /\ line_ranges[p] = load_line_ranges(EmptyMap, p, fs[p].source)[p]

(***************************************************************************)
(* Project::translate_interface and Project::translate_library             *)
(***************************************************************************)
\* pt::Parameter, and its slot in a parameter list, (Loc, Option<Parameter>)
Parameter(name, ty) == Some([name |-> name, ty |-> ty])

\* the parameter lists of the functions of interfaces: named, unnamed and
\* missing parameters
ParameterLists ==
    {<<>>, <<Parameter(Some(TotalSupply), "uint256")>>, <<Parameter(None, "address")>>,
     <<Parameter(Some(BalanceOf), "address"), Parameter(Some(TotalSupply), "bool")>>,
     <<None>>}

\* ContractPart::FunctionDefinition of an interface
InterfaceFunction(name, params, returns) ==
    [kind |-> "FunctionDefinition", ty |-> "Function",
     attributes |-> function_attrs("External"),
     name |-> name, params |-> params, returns |-> returns]

\* the functions of interfaces: every parameter list, every list of returned
\* values, and a function without a name
InterfaceFunctions ==
    {InterfaceFunction(Some(BalanceOf), params, <<>>) : params \in ParameterLists}
        \cup {InterfaceFunction(Some(BalanceOf), <<>>, returns) :
                 returns \in ParameterLists}
        \cup {InterfaceFunction(None, <<>>, <<>>)}

\* the parts of interfaces
InterfaceParts ==
    OtherContractParts \cup InterfaceFunctions
        \cup {[kind |-> "VariableDefinition", attrs |-> variable_attrs("Public", TRUE, FALSE),
               name |-> Some(TotalSupply), ty |-> "uint256"]}

\* .collect::<Vec<_>>().join(", ")
RECURSIVE join_from(_, _)
join_from(names, k) ==
    IF k > Len(names) THEN ""
    ELSE (IF k > 1 THEN ", " ELSE "") \o names[k] \o join_from(names, k + 1)

\* format!("({})", ..join(", ")) over the translated names of a list of types
tuple_type_name(source_unit_path, tys) ==
    [name |-> "(" \o join_from([k \in 1..Len(tys) |->
                                   translate_type_name(source_unit_path, tys[k]).name], 1)
                  \o ")",
     generic_parameters |-> <<>>]

\* an unwrap() of a parameter list fails: a slot or a name that is None
unwrap_fails(params, names_too) ==
    \E k \in 1..Len(params) :
        IF params[k] = None THEN TRUE ELSE names_too /\ params[k].value.name = None

\* the sway::Function pushed for ContractPart::FunctionDefinition
interface_function(source_unit_path, part) ==
    IF part.name = None \/ unwrap_fails(part.params, TRUE)
         \/ unwrap_fails(part.returns, FALSE)
      THEN [status |-> "panic"]
      ELSE [status |-> "Ok",
            function |->
              [is_public |-> FALSE, name |-> to_snake(part.name.value),
               generic_parameters |-> <<>>,
               parameters |-> [k \in 1..Len(part.params) |->
                  [name |-> to_snake(part.params[k].value.name.value),
                   type_name |-> translate_type_name(source_unit_path,
                                                     part.params[k].value.ty)]],
               return_type |->
                  IF Len(part.returns) = 0 THEN None
                  ELSE IF Len(part.returns) = 1
                    THEN Some(translate_type_name(source_unit_path,
                                                  part.returns[1].value.ty))
                  ELSE Some(tuple_type_name(source_unit_path,
                          [k \in 1..Len(part.returns) |-> part.returns[k].value.ty])),
               body |-> None]]

\* sway::EnumVariant of an event or error definition
enum_variant(source_unit_path, part) ==
    [name |-> to_string(part.name.value),
     type_name |-> tuple_type_name(source_unit_path,
                      [k \in 1..Len(part.fields) |-> part.fields[k].ty])]

\* a line printed by println!
Printed(what, value) == [printed |-> what, value |-> value]

\* the loop over contract_definition.parts, from part k on; acc holds
\* sway_abi, sway_events, sway_errors and the lines printed so far
RECURSIVE translate_interface_parts(_, _, _, _)
translate_interface_parts(source_unit_path, parts, k, acc) ==
    IF k > Len(parts) THEN acc
    ELSE LET part == parts[k]
         IN  CASE part.kind \in {"TypeDefinition", "StructDefinition", "EnumDefinition"} ->
                    translate_interface_parts(source_unit_path, parts, k + 1,
                        [acc EXCEPT !.out = Append(@, Printed("TODO", [kind |-> part.kind]))])
               [] part.kind = "EventDefinition" ->
                    IF part.name = None THEN [acc EXCEPT !.status = "panic"]
                    ELSE translate_interface_parts(source_unit_path, parts, k + 1,
                            [acc EXCEPT !.sway_events.variants =
                                Append(@, enum_variant(source_unit_path, part))])
               [] part.kind = "ErrorDefinition" ->
                    IF part.name = None THEN [acc EXCEPT !.status = "panic"]
                    ELSE translate_interface_parts(source_unit_path, parts, k + 1,
                            [acc EXCEPT !.sway_errors.variants =
                                Append(@, enum_variant(source_unit_path, part))])
               [] part.kind = "FunctionDefinition" ->
                    LET f == interface_function(source_unit_path, part)
                    IN  IF f.status = "panic" THEN [acc EXCEPT !.status = "panic"]
                        ELSE translate_interface_parts(source_unit_path, parts, k + 1,
                                [acc EXCEPT !.sway_abi.functions = Append(@, f.function)])
               [] part.kind \in {"VariableDefinition", "Using"} ->
                    [acc EXCEPT !.status = "panic"]
               [] part.kind \in {"Annotation", "StraySemicolon"} ->
                    translate_interface_parts(source_unit_path, parts, k + 1, acc)

\* a mutant of translate_interface: the ABI is printed before the events enum
translate_interface_abi_first(source_unit_path, contract_definition) ==
    LET r == translate_interface_parts(source_unit_path, contract_definition.parts, 1,
                [status |-> "Ok",
                 sway_abi |-> [name |-> contract_definition.name, functions |-> <<>>],
                 sway_events |-> [is_public |-> TRUE,
                                  name |-> contract_definition.name \o "Event",
                                  generic_parameters |-> <<>>, variants |-> <<>>],
                 sway_errors |-> [is_public |-> TRUE,
                                  name |-> contract_definition.name \o "Error",
                                  generic_parameters |-> <<>>, variants |-> <<>>],
                 out |-> <<>>])
    IN  IF r.status # "Ok" THEN [status |-> r.status, out |-> r.out]
        ELSE [status |-> "Ok",
              out |-> r.out
                \o (IF r.sway_abi.functions # <<>>
                      THEN <<Printed("abi", r.sway_abi)>> ELSE <<>>)
                \o (IF r.sway_events.variants # <<>>
                      THEN <<Printed("enum", r.sway_events)>> ELSE <<>>)]

\* Project::translate_interface: the status it ends with and the lines it
\* has printed on standard output
translate_interface(source_unit_path, contract_definition) ==
    LET r == translate_interface_parts(source_unit_path, contract_definition.parts, 1,
                [status |-> "Ok",
                 sway_abi |-> [name |-> contract_definition.name, functions |-> <<>>],
                 sway_events |-> [is_public |-> TRUE,
                                  name |-> contract_definition.name \o "Event",
                                  generic_parameters |-> <<>>, variants |-> <<>>],
                 sway_errors |-> [is_public |-> TRUE,
                                  name |-> contract_definition.name \o "Error",
                                  generic_parameters |-> <<>>, variants |-> <<>>],
                 out |-> <<>>])
    IN  IF r.status # "Ok" THEN [status |-> r.status, out |-> r.out]
        ELSE [status |-> "Ok",
              out |-> r.out
                \o (IF r.sway_events.variants # <<>>
                      THEN <<Printed("enum", r.sway_events)>> ELSE <<>>)
                \o (IF r.sway_abi.functions # <<>>
                      THEN <<Printed("abi", r.sway_abi)>> ELSE <<>>)]

\* Project::translate_library: todo!()
translate_library(source_unit_path, contract_definition) ==
    [status |-> "panic", out |-> <<>>]

(***************************************************************************)
(* Project::translate, called by translate_project after Project::try_from *)
(***************************************************************************)
\* most parts of a source unit that is translated
MaxParts == 2

\* the source unit parts translate does nothing for
SkippedKinds == {"PragmaDirective", "ImportDirective", "Annotation", "StraySemicolon"}

\* the source unit parts translate stops at with todo!() or unimplemented!()
UnsupportedKinds ==
    {"EnumDefinition", "StructDefinition", "EventDefinition", "ErrorDefinition",
     "FunctionDefinition", "VariableDefinition", "TypeDefinition", "Using"}

\* an interface that declares one event and one function
Interface ==
    ContractDefinition("Interface", "Token",
        <<[kind |-> "EventDefinition", name |-> Some(<<"S", "e", "n", "t">>),
           fields |-> <<[name |-> None, ty |-> "address"]>>],
          InterfaceFunction(Some(BalanceOf), <<Parameter(Some(TotalSupply), "address")>>,
                            <<Parameter(None, "uint256")>>)>>)

\* the parts of source units, with one definition of each kind
SourceUnitParts ==
    QueueDirectives
        \cup {[kind |-> k] : k \in (SkippedKinds \ {"ImportDirective"}) \cup UnsupportedKinds}
        \cup {ContractDefinition("Library", "Token", <<>>),
              ContractDefinition("Abstract", "Token", <<>>),
              ContractDefinition("Contract", "Token", <<>>),
              Interface}

\* the arm of the match on a source unit part, but for contracts and abstract
\* contracts: the status it ends with and the lines it has printed
translate_source_unit_part(source_unit_path, part) ==
    CASE part.kind \in SkippedKinds -> [status |-> "Ok", out |-> <<>>]
      [] part.kind = "ContractDefinition" /\ part.ty = "Interface" ->
           translate_interface(source_unit_path, part)
      [] part.kind = "ContractDefinition" /\ part.ty = "Library" ->
           translate_library(source_unit_path, part)
      [] part.kind \in UnsupportedKinds -> [status |-> "panic", out |-> <<>>]

\* for source_unit_path in conversion_queue.iter(): the next path, parsed now
\* if the cache does not hold it
NextQueuedUnit ==
    /\ pc = "translate"
    /\ UnitExhausted
    /\ queue_index <= Len(conversion_queue)
    /\ LET source_unit_path == conversion_queue[queue_index]
           r == IF source_unit_path \in DOMAIN solidity_source_units
                  THEN [status |-> "Ok", line_ranges |-> line_ranges,
                        units |-> solidity_source_units, calls |-> parse_calls]
                  ELSE parse_solidity_source_unit(fs, source_unit_path, line_ranges,
                                                  solidity_source_units, parse_calls)
       IN  /\ line_ranges' = r.line_ranges
           /\ solidity_source_units' = r.units
           /\ parse_calls' = r.calls
           /\ IF r.status = "Ok"
                THEN /\ unit' = source_unit_path
                     /\ part_index' = 1
                     /\ queue_index' = queue_index + 1
                     /\ UNCHANGED <<pc, outcome, stderr>>
                ELSE /\ Fail(r.status)
                     /\ UNCHANGED <<unit, part_index, queue_index>>
    /\ UNCHANGED <<source, defVars, typeVars, scopeVars, conversion_queue, pending,
                   contractVars, fs,
                   contract_files, file_index>>

\* for source_unit_part in source_unit.0.iter(): one part
TranslateSourceUnitPart ==
    /\ pc = "translate"
    /\ ~ UnitExhausted
    /\ LET part == UnitParts[part_index]
       IN  IF part.kind = "ContractDefinition" /\ part.ty \in {"Abstract", "Contract"}
             THEN /\ pc' = "translate_contract_definition"
                  /\ contract' = part
                  /\ module' = None
                  /\ member_index' = 0
                  /\ UNCHANGED <<part_index, outcome, stdout, stderr>>
             ELSE LET r == translate_source_unit_part(unit, part)
                  IN  /\ stdout' = stdout \o r.out
                      /\ IF r.status = "Ok"
                           THEN /\ part_index' = part_index + 1
                                /\ UNCHANGED <<pc, outcome, stderr>>
                           ELSE /\ Fail(r.status)
                                /\ UNCHANGED part_index
                      /\ UNCHANGED <<contract, module, member_index>>
    /\ UNCHANGED <<linesVars, defVars, typeVars, scopeVars, solidity_source_units,
                   conversion_queue, pending,
                   unit, fs, contract_files, file_index, parse_calls, queue_index>>

\* Ok(()): the queue is exhausted and main returns
FinishTranslate ==
    /\ pc = "translate"
    /\ UnitExhausted
    /\ queue_index > Len(conversion_queue)
    /\ outcome' = "Ok"
    /\ pc' = "exit"
    /\ UNCHANGED <<linesVars, defVars, typeVars, scopeVars, solidity_source_units,
                   conversion_queue, pending,
                   unit, part_index, contractVars, runVars>>

\* the text of the files of the projects that are translated
RunText == <<"a", NL>>

\* files that import at most one file, or cannot be read or parsed
ImportingFiles(text) ==
    {File(TRUE, text, Parsed(parts)) : parts \in SeqsUpTo(QueueDirectives, 1)}
        \cup {File(TRUE, text, SyntaxError), File(FALSE, <<>>, SyntaxError),
              File(TRUE, <<"a">>, Parsed(<<>>))}

\* files of at most MaxParts parts, files of one interface, and files of one
\* contract of at most one part
DefiningFiles(text) ==
    {File(TRUE, text, Parsed(parts)) : parts \in SeqsUpTo(SourceUnitParts, MaxParts)}
        \cup {File(TRUE, text,
                   Parsed(<<ContractDefinition("Interface", "Token", parts)>>)) :
                 parts \in SeqsUpTo(InterfaceParts, MaxMembers)}
        \cup {File(TRUE, text,
                   Parsed(<<ContractDefinition("Contract", "Token", parts)>>)) :
                 parts \in SeqsUpTo(ContractParts, 1)}

\* a project: its files and the contract_files of the command line
Project(files, entries) == [fs |-> files, contract_files |-> entries]

\* projects whose files import each other in every way, with every command line
ImportingProjects(text) ==
    {Project(files, entries) :
        files \in [Paths -> ImportingFiles(text)],
        entries \in SeqsUpTo(Names, MaxFiles) \ {<<>>}}

\* projects whose file 1 imports the others, in either order, file 2 defines
\* anything and the others define an interface or cannot be read or parsed;
\* file 1 is given on the command line, alone or with file 2
DefiningProjects(text) ==
    {Project([p \in Paths |-> IF p = 1 THEN File(TRUE, text, Parsed(imports))
                              ELSE IF p = 2 THEN defining ELSE other],
             entries) :
        imports \in {[k \in 1..(NPaths - 1) |-> ImportDirective("Plain", Filename(k + 1))],
                     [k \in 1..(NPaths - 1) |->
                         ImportDirective("Plain", Filename(NPaths + 1 - k))]},
        defining \in DefiningFiles(text),
        other \in {File(TRUE, text, Parsed(<<Interface>>)),
                   File(TRUE, text, SyntaxError),
                   File(FALSE, <<>>, SyntaxError)},
        entries \in {<<1>>, <<1, 2>>}}

\* the process starts: Options::from_args_safe() has succeeded
InitRun ==
    /\ pc = "try_from"
    /\ \E project \in ImportingProjects(RunText) \cup DefiningProjects(RunText) :
          /\ fs = project.fs
          /\ contract_files = project.contract_files
    /\ file_index = 1
    /\ parse_calls = [p \in Paths |-> 0]
    /\ line_ranges = EmptyMap
    /\ solidity_source_units = EmptyMap
    /\ conversion_queue = <<>>
    /\ pending = {}
    /\ unit = NoPath
    /\ part_index = 0
    /\ queue_index = 0
    /\ outcome = "running"
    /\ stdout = <<>>
    /\ stderr = <<>>
    /\ source = <<>>
    /\ contract = None
    /\ module = None
    /\ member_index = 0
    /\ IdleDef
    /\ IdleType
    /\ IdleScope

NextRun ==
    \/ ParseContractFile
    \/ ProjectLoaded
    \/ NextSourceUnit
    \/ ScanSourceUnitPart
    \/ ReturnQueue
    \/ NextQueuedUnit
    \/ TranslateSourceUnitPart
    \/ NewModule
    \/ TranslateContractPart
    \/ PrintModule
    \/ FinishTranslate

SpecRun == InitRun /\ [][NextRun]_vars

\* the run has ended in a failure
Failed == outcome \in {"Err", "panic"}

\* C6: in a run that ends in a failure, nothing has been written to standard
\* output: no output of an interface or contract translated earlier is
\* emitted before the failure.
C6_NoOutputOnFailure == Failed => stdout = <<>>

\* the step that is about to be taken reaches an unsupported construct: an
\* import with a non-file specifier, a free top-level definition, a library
\* or an immutable state variable
ReachesUnsupported ==
    \/ /\ pc = "create_conversion_queue"
       /\ ~ UnitExhausted
       /\ UnitParts[part_index].kind = "ImportDirective"
       /\ UnitParts[part_index].import_path.variant # "Filename"
    \/ /\ pc = "translate"
       /\ ~ UnitExhausted
       /\ \/ UnitParts[part_index].kind \in UnsupportedKinds
          \/ /\ UnitParts[part_index].kind = "ContractDefinition"
             /\ UnitParts[part_index].ty = "Library"
    \/ /\ pc = "contract_parts"
       /\ member_index <= Len(contract.parts)
       /\ Member.kind = "VariableDefinition"
       /\ has_attr(Member.attrs, "Immutable")
       /\ ~ has_attr(Member.attrs, "Constant")

\* C7: every unsupported construct reached by translate() ends the run with
\* an error that is returned as an error result to main, which prints it as
\* one line on standard error; it is never a panic and never skipped.
C7_UnsupportedIsError ==
    [][ReachesUnsupported =>
          /\ outcome' = "Err"
          /\ stderr' = Append(stderr, "Err")]_vars

(***************************************************************************)
(* Project::translate on a queue of one unit that holds one definition     *)
(***************************************************************************)
\* the definitions of a name a unit can hold: every interface and every
\* contract of at most MaxMembers parts, an abstract contract and a library
UnitDefinitions(name) ==
    {ContractDefinition("Interface", name, parts) :
        parts \in SeqsUpTo(InterfaceParts, MaxMembers)}
      \cup {ContractDefinition("Contract", name, parts) :
              parts \in SeqsUpTo(ContractParts, MaxMembers)}
      \cup {ContractDefinition("Abstract", name, <<>>),
            ContractDefinition("Library", name, <<>>)}

\* translate has built the queue, which holds the one unit of the cache
InitUnit ==
    /\ pc = "translate"
    /\ \E d \in UnitDefinitions("Token") :
          solidity_source_units = (ContractPath :> <<PragmaDirective, d>>)
    /\ conversion_queue = <<ContractPath>>
    /\ queue_index = 1
    /\ pending = {}
    /\ unit = NoPath
    /\ part_index = 0
    /\ outcome = "running"
    /\ fs = EmptyMap
    /\ contract_files = <<ContractPath>>
    /\ file_index = 2
    /\ parse_calls = EmptyMap
    /\ stderr = <<>>
    /\ IdleLines
    /\ IdleDef
    /\ IdleType
    /\ IdleScope
    /\ IdleContract

NextUnit ==
    \/ NextQueuedUnit
    \/ TranslateSourceUnitPart
    \/ NewModule
    \/ TranslateContractPart
    \/ PrintModule
    \/ FinishTranslate

SpecUnit == InitUnit /\ [][NextUnit]_vars

\* the parts of a kind among the parts of a definition
PartsOfKind(parts, kind) == SelectSeq(parts, LAMBDA part : part.kind = kind)

\* the lines a step adds to standard output
Emitted == SubSeq(stdout', Len(stdout) + 1, Len(stdout'))

\* the rendered items among lines: all but the "TODO: .." notes
Rendered(lines) == SelectSeq(lines, LAMBDA line : line.printed # "TODO")

\* what each of a sequence of lines renders
PrintedOf(lines) == [k \in 1..Len(lines) |-> lines[k].printed]

\* translate is about to dispatch an interface, and the step succeeds
InterfaceSucceeds ==
    /\ pc = "translate"
    /\ ~ UnitExhausted
    /\ UnitParts[part_index].kind = "ContractDefinition"
    /\ UnitParts[part_index].ty = "Interface"
    /\ outcome' = "running"

\* the events and the functions the interface declares
DeclaredEvents == PartsOfKind(UnitParts[part_index].parts, "EventDefinition")
DeclaredFunctions == PartsOfKind(UnitParts[part_index].parts, "FunctionDefinition")

\* each step of translate_contract_definition prints nothing, but the last,
\* taken after all the members, which prints the module and leaves
ModulePrintedOnce ==
    pc \in {"translate_contract_definition", "contract_parts"} =>
        IF pc = "contract_parts" /\ member_index > Len(contract.parts)
          THEN /\ stdout' = Append(stdout, Printed("module", module))
               /\ pc' = "translate"
          ELSE stdout' = stdout

\* C12: on success an interface emits its rendered events enum exactly when
\* it declares at least one event, followed by its rendered ABI, the enum
\* never after the ABI; a contract emits its rendered module exactly once,
\* after all of its members have been processed.
C12_EnumThenAbi ==
    [][/\ InterfaceSucceeds =>
             PrintedOf(Rendered(Emitted)) =
                 (IF DeclaredEvents # <<>> THEN <<"enum">> ELSE <<>>) \o <<"abi">>
       /\ ModulePrintedOnce]_vars

\* C12, amended: the ABI is emitted exactly when the interface declares at
\* least one function; the enum holds one variant per event and the ABI one
\* function per declared function.
C12_EnumThenAbiIfFunctions ==
    [][/\ InterfaceSucceeds =>
             LET lines == Rendered(Emitted)
             IN  /\ PrintedOf(lines) =
                        (IF DeclaredEvents # <<>> THEN <<"enum">> ELSE <<>>)
                            \o (IF DeclaredFunctions # <<>> THEN <<"abi">> ELSE <<>>)
                 /\ \A k \in 1..Len(lines) :
                       IF lines[k].printed = "enum"
                         THEN Len(lines[k].value.variants) = Len(DeclaredEvents)
                         ELSE Len(lines[k].value.functions) = Len(DeclaredFunctions)
       /\ ModulePrintedOnce]_vars

\* an interface that declares an event and a function has been translated:
\* its enum and then its ABI are on standard output
C12_Witness ==
    /\ pc = "translate"
    /\ unit = ContractPath
    /\ part_index = 3
    /\ UnitParts[2].ty = "Interface"
    /\ PrintedOf(stdout) = <<"enum", "abi">>

(***************************************************************************)
(* Calls of Project::translate_type_name on a loaded project               *)
(***************************************************************************)
\* the type names asked for: elementary types, suffixed types and names of
\* user types, as f.ty.to_string() spells them
BaseTypeNames == {"uint", "int", "address", "bool", "bytes", "string", "Token"}
TypeSuffixes == {"", "256", "8", " payable", "[]"}
TypeNames == {base \o suffix : base \in BaseTypeNames, suffix \in TypeSuffixes}

\* the states of the project the function is called on
ProjectStates ==
    {[line_ranges |-> EmptyMap, solidity_source_units |-> EmptyMap],
     [line_ranges |-> (1 :> <<<<0, 1>>>>),
      solidity_source_units |-> (1 :> <<PragmaDirective>>)]}

\* a project on which translate_type_name is called
InitType ==
    /\ pc = "translate_type_name"
    /\ \E project \in ProjectStates :
          /\ line_ranges = project.line_ranges
          /\ solidity_source_units = project.solidity_source_units
    /\ type_query = None
    /\ translated = None
    /\ source = <<>>
    /\ conversion_queue = <<>>
    /\ pending = {}
    /\ unit = NoPath
    /\ part_index = 0
    /\ outcome = "running"
    /\ IdleDef
    /\ IdleScope
    /\ IdleContract
    /\ IdleRun

\* self.translate_type_name(source_unit_path, type_name)
TranslateTypeName ==
    /\ pc = "translate_type_name"
    /\ \E source_unit_path \in Paths, name \in TypeNames :
          /\ type_query' = Some([source_unit_path |-> source_unit_path, type_name |-> name])
          /\ translated' = Some(translate_type_name(source_unit_path, name))
    /\ UNCHANGED <<pc, linesVars, defVars, queueVars, contractVars, runVars, scopeVars>>

NextType == TranslateTypeName

SpecType == InitType /\ [][NextType]_vars

\* C13: translate_type_name maps "uint" and "uint256" to "u64", "address"
\* and "address payable" to "Address", and returns every other name
\* unchanged, always with an empty generic-parameter list, whatever the
\* source unit path and the state of the project.
C13_TypeMapping ==
    translated # None =>
        /\ translated.value.generic_parameters = <<>>
        /\ translated.value.name =
              IF type_query.value.type_name \in {"uint", "uint256"} THEN "u64"
              ELSE IF type_query.value.type_name \in {"address", "address payable"}
                THEN "Address"
              ELSE type_query.value.type_name

\* uint256 was translated for the unit of path 2 on a project with a cached unit
C13_Witness ==
    /\ translated # None
    /\ type_query.value.type_name = "uint256"
    /\ type_query.value.source_unit_path = 2
    /\ solidity_source_units # EmptyMap
    /\ translated.value.name = "u64"

\* the canonical paths of the files a file imports, none if it has no parsed unit
ImportsOf(files, p) ==
    IF files[p].readable /\ files[p].unit.ok
      THEN {canonicalize(d.import_path.string).path :
              d \in {e \in Range(files[p].unit.parts) :
                        /\ e.kind = "ImportDirective"
                        /\ e.import_path.variant = "Filename"
                        /\ canonicalize(e.import_path.string).ok}}
      ELSE {}

\* the files reachable through imports from a set of files
RECURSIVE Reachable(_, _)
Reachable(files, S) ==
    LET T == S \cup UNION {ImportsOf(files, p) : p \in S}
    IN  IF T = S THEN S ELSE Reachable(files, T)

\* the canonical paths of the entry points given on the command line
EntryPoints ==
    {canonicalize(contract_files[k]).path : k \in 1..Len(contract_files)}

\* C14: every file supplied as an entry point is processed by translate():
\* its canonical path is in the conversion queue and it is dispatched, also
\* when no file imports it; and every file reachable through imports from an
\* entry point is in the queue and gets parsed and dispatched.
C14_EntryPointsAndImportsQueued ==
    outcome = "Ok" =>
        \A p \in Reachable(fs, EntryPoints) :
            /\ p \in Range(conversion_queue)
            /\ p \in DOMAIN solidity_source_units

\* the parts of the cached units that create_conversion_queue has processed
ProcessedParts ==
    UNION {Range(solidity_source_units[p]) :
              p \in (DOMAIN solidity_source_units \ pending) \ {unit}}
      \cup (IF unit = NoPath THEN {}
            ELSE {UnitParts[k] : k \in 1..(part_index - 1)})

\* the distinct canonical paths imported by the processed parts
ImportedPaths ==
    {canonicalize(d.import_path.string).path :
        d \in {e \in ProcessedParts :
                  /\ e.kind = "ImportDirective"
                  /\ e.import_path.variant = "Filename"
                  /\ canonicalize(e.import_path.string).ok}}

\* C16: after any sequence of import references processed by
\* create_conversion_queue, repeated, diamond-shaped and cyclic imports
\* included, the queue holds no canonical path more than once and its length
\* is the number of distinct imported paths.
C16_QueueHasNoDuplicates ==
    /\ \A i, j \in 1..Len(conversion_queue) :
          conversion_queue[i] = conversion_queue[j] => i = j
    /\ Range(conversion_queue) = ImportedPaths
    /\ Len(conversion_queue) = Cardinality(ImportedPaths)

\* the queue is returned for a cache with three import directives, two of
\* them for the same file, among them a file that imports itself
C16_Witness ==
    /\ pc = "translate"
    /\ Len(conversion_queue) = 2
    /\ \E p \in Paths : Len(solidity_source_units[p]) = 2
    /\ \E p \in Paths : /\ Len(solidity_source_units[p]) >= 1
                        /\ p \in Range(ImportTargets(solidity_source_units[p]))
    /\ \E p, q \in Paths :
          /\ p # q
          /\ Range(ImportTargets(solidity_source_units[p]))
               \cap Range(ImportTargets(solidity_source_units[q])) # {}

\* the inner loop of create_conversion_queue over the parts of one unit, from
\* part k on, for a run in which every directive resolves
RECURSIVE scan_parts(_, _, _)
scan_parts(queue, parts, k) ==
    IF k > Len(parts) THEN queue
    ELSE IF parts[k].kind # "ImportDirective" THEN scan_parts(queue, parts, k + 1)
    ELSE scan_parts(queue_import_directive(queue, parts[k]).queue, parts, k + 1)

\* the outer loop when the HashMap iterator yields the units in a given order
RECURSIVE scan_units(_, _, _, _)
scan_units(queue, units, order, k) ==
    IF k > Len(order) THEN queue
    ELSE scan_units(scan_parts(queue, units[order[k]], 1), units, order, k + 1)

\* the visiting orders of the cached units
VisitingOrders == Permutations(Paths)

\* C17: the queue returned by create_conversion_queue is determined by the
\* cached units and their import directives alone: it is the queue of every
\* order in which the units can be visited.
C17_QueueIgnoresVisitingOrder ==
    (pc = "translate" /\ outcome = "running") =>
        \A order \in VisitingOrders :
            conversion_queue = scan_units(<<>>, solidity_source_units, order, 1)

(***************************************************************************)
(* Calls of Project::parse_solidity_source_unit on a project with a cache  *)
(***************************************************************************)
\* the caches the calls start from: some paths hold a unit parsed earlier,
\* from a text the file no longer has to have
StartCaches ==
    {[p \in S |-> <<PragmaDirective>>] : S \in SUBSET Paths}

\* the files as they are now: one that parses, one with a syntax error, one
\* that cannot be read and one without a line break
ParseFiles ==
    {File(TRUE, RunText, Parsed(<<>>)), File(TRUE, RunText, SyntaxError),
     File(FALSE, <<>>, SyntaxError), File(TRUE, <<"a">>, Parsed(<<>>))}

\* most calls of parse_solidity_source_unit on one project
MaxCalls == 2

\* a project with a cache, and the files as they are now; file_index counts
\* the calls made
InitParse ==
    /\ pc = "parse_solidity_source_unit"
    /\ fs \in [Paths -> ParseFiles]
    /\ solidity_source_units \in StartCaches
    /\ line_ranges = [p \in DOMAIN solidity_source_units |-> <<<<0, 1>>>>]
    /\ parse_calls = [p \in Paths |-> 0]
    /\ contract_files = <<>>
    /\ file_index = 0
    /\ queue_index = 0
    /\ stderr = <<>>
    /\ source = <<>>
    /\ conversion_queue = <<>>
    /\ pending = {}
    /\ unit = NoPath
    /\ part_index = 0
    /\ outcome = "running"
    /\ IdleDef
    /\ IdleType
    /\ IdleScope
    /\ IdleContract

\* self.parse_solidity_source_unit(path)?
ParseSourceUnit ==
    /\ pc = "parse_solidity_source_unit"
    /\ file_index < MaxCalls
    /\ file_index' = file_index + 1
    /\ \E name \in Names :
          LET r == parse_solidity_source_unit(fs, name, line_ranges,
                                              solidity_source_units, parse_calls)
          IN  /\ line_ranges' = r.line_ranges
              /\ solidity_source_units' = r.units
              /\ parse_calls' = r.calls
              /\ contract_files' = <<name>>
              /\ IF r.status = "Ok"
                   THEN UNCHANGED <<pc, outcome, stderr>>
                   ELSE Fail(r.status)
    /\ UNCHANGED <<source, defVars, typeVars, scopeVars, conversion_queue, pending, unit,
                   part_index, contractVars, fs, queue_index>>

NextParse == ParseSourceUnit

SpecParse == InitParse /\ [][NextParse]_vars

\* the cache with the unit of the file at path inserted, or put in the place
\* of the entry the path had
Inserted(units, path) ==
    [q \in DOMAIN units \cup {path} |->
        IF q = path THEN fs[path].unit.parts ELSE units[q]]

\* C18: a parse_solidity_source_unit call that fails leaves the cache as it
\* was: no entry is added and an entry the path had is not replaced or
\* removed; the cache changes only on success, where the entry of the
\* canonical path is inserted or overwritten.
C18_FailedParseKeepsCache ==
    [][(pc = "parse_solidity_source_unit" /\ file_index < MaxCalls) =>
          IF outcome' # "running"
            THEN solidity_source_units' = solidity_source_units
            ELSE LET path == canonicalize(contract_files'[1]).path
                 IN  /\ fs[path].readable
                     /\ fs[path].unit.ok
                     /\ solidity_source_units' = Inserted(solidity_source_units, path)]_vars

\* a call failed with a syntax error on a path whose earlier unit is cached,
\* after a call that overwrote an entry
C18_Witness ==
    /\ outcome = "Err"
    /\ \E p \in DOMAIN solidity_source_units :
          /\ ~ fs[p].unit.ok
          /\ parse_calls[p] = 1
          /\ solidity_source_units[p] = <<PragmaDirective>>
    /\ \E p \in DOMAIN solidity_source_units :
          /\ parse_calls[p] = 1
          /\ solidity_source_units[p] = <<>>

(***************************************************************************)
(* TranslationScope::find_variable and find_variable_mut                   *)
(***************************************************************************)
\* most variables of one scope, and most scopes of a chain
MaxVariables == 2
MaxDepth == 3

\* TranslatedVariable::old_name
OldNames == {"x", "y"}

\* a TranslatedVariable
TranslatedVariable(old_name) ==
    [old_name |-> old_name, new_name |-> old_name, is_storage |-> FALSE,
     mutation_count |-> 0]

\* a reference to a variable of a chain: the scope it is in (1 is the scope
\* itself, 2 its parent, ..) and its 0-based index in that scope's list
Reference(depth, index) == [depth |-> depth, index |-> index]

\* variables.iter().rev().find(|v| v.old_name == old_name), from index k down
RECURSIVE rev_find(_, _, _)
rev_find(variables, old_name, k) ==
    IF k = 0 THEN None
    ELSE IF variables[k].old_name = old_name THEN Some(k - 1)
    ELSE rev_find(variables, old_name, k - 1)

\* a mutant of find_variable: the list is searched from the front
RECURSIVE find_variable_oldest(_, _, _)
find_variable_oldest(chain, depth, old_name) ==
    LET variables == chain[depth]
        at == {k \in 1..Len(variables) : variables[k].old_name = old_name}
    IN  IF at # {}
          THEN Some(Reference(depth, (CHOOSE k \in at : \A j \in at : k <= j) - 1))
        ELSE IF depth < Len(chain) THEN find_variable_oldest(chain, depth + 1, old_name)
        ELSE None

\* TranslationScope::find_variable on the scope at depth of the chain
RECURSIVE find_variable(_, _, _)
find_variable(chain, depth, old_name) ==
    LET variable == rev_find(chain[depth], old_name, Len(chain[depth]))
    IN  IF variable # None THEN Some(Reference(depth, variable.value))
        ELSE IF depth < Len(chain)
          THEN LET inherited == find_variable(chain, depth + 1, old_name)
               IN  IF inherited # None THEN inherited ELSE None
        ELSE None

\* TranslationScope::find_variable_mut on the scope at depth of the chain
RECURSIVE find_variable_mut(_, _, _)
find_variable_mut(chain, depth, old_name) ==
    LET variable == rev_find(chain[depth], old_name, Len(chain[depth]))
    IN  IF variable # None THEN Some(Reference(depth, variable.value))
        ELSE IF depth < Len(chain)
          THEN LET inherited == find_variable_mut(chain, depth + 1, old_name)
               IN  IF inherited # None THEN inherited ELSE None
        ELSE None

\* the variable lists of the scopes
VariableLists ==
    SeqsUpTo({TranslatedVariable(old_name) : old_name \in OldNames}, MaxVariables)

\* a scope with its chain of parents
InitScope ==
    /\ pc = "scope"
    /\ scope \in SeqsUpTo(VariableLists, MaxDepth) \ {<<>>}
    /\ found = None
    /\ IdleLines
    /\ IdleDef
    /\ IdleQueue
    /\ IdleContract
    /\ IdleRun
    /\ IdleType

\* scope.find_variable(old_name)
FindVariable ==
    /\ pc = "scope"
    /\ \E old_name \in OldNames :
          found' = [old_name |-> old_name, mutable |-> FALSE,
                    variable |-> find_variable(scope, 1, old_name)]
    /\ UNCHANGED <<pc, scope, linesVars, defVars, queueVars, contractVars, runVars,
                   typeVars>>

\* scope.find_variable_mut(old_name)
FindVariableMut ==
    /\ pc = "scope"
    /\ \E old_name \in OldNames :
          found' = [old_name |-> old_name, mutable |-> TRUE,
                    variable |-> find_variable_mut(scope, 1, old_name)]
    /\ UNCHANGED <<pc, scope, linesVars, defVars, queueVars, contractVars, runVars,
                   typeVars>>

NextScope ==
    \/ FindVariable
    \/ FindVariableMut

SpecScope == InitScope /\ [][NextScope]_vars

\* the scopes of the chain that hold the name
Holding(old_name) ==
    {d \in 1..Len(scope) : \E k \in 1..Len(scope[d]) : scope[d][k].old_name = old_name}

\* the innermost scope that holds the name, and the variable of that name
\* added to it last
Shadowing(old_name) ==
    LET d == CHOOSE d \in Holding(old_name) : \A e \in Holding(old_name) : d <= e
        at == {k \in 1..Len(scope[d]) : scope[d][k].old_name = old_name}
    IN  Reference(d, (CHOOSE k \in at : \A j \in at : j <= k) - 1)

\* C15: lookup by old name searches the scope's own list first and then the
\* parent chain: a variable of an inner scope shadows the same-named
\* variables of every ancestor, among same-named variables of one scope the
\* one added last wins, the result is none only when no scope of the chain
\* holds the name, and find_variable and find_variable_mut select the same
\* variable for every chain and name.
C15_InnermostLatestWins ==
    /\ found # None =>
          found.variable = IF Holding(found.old_name) = {} THEN None
                           ELSE Some(Shadowing(found.old_name))
    /\ \A old_name \in OldNames :
          find_variable(scope, 1, old_name) = find_variable_mut(scope, 1, old_name)

\* x was looked up in a scope that holds it twice and whose parent holds it too
C15_Witness ==
    /\ found # None
    /\ found.old_name = "x"
    /\ Len(scope) >= 2
    /\ Len(scope[1]) = 2
    /\ scope[1][1].old_name = "x"
    /\ scope[1][2].old_name = "x"
    /\ 2 \in Holding("x")
    /\ found.variable = Some(Reference(1, 1))

====
